---- MODULE Spec2Model ----
(***************************************************************************)
(* A model of the assignment-PDF structuring pipeline of                   *)
(* app/services/advanced_pdf_extractor.py: the line classifier, the        *)
(* question-text classifier, the question parser, the scenario detector,   *)
(* the context enhancer and the chunk synthesizer.                         *)
(*                                                                         *)
(* Python str values are TLA+ strings; a character is a string of length   *)
(* one, read with SubSeq.                                                  *)
(***************************************************************************)
EXTENDS Integers, Sequences, FiniteSets, TLC

VARIABLES
    pages,             \* structured_content['pages']: per page blocks, tables, images
    full_text,         \* structured_content['full_text']
    scenarios,         \* structured_content['scenarios']
    lines,             \* _parse_questions: full_text.split('\n')
    idx,               \* _parse_questions: index of the next line of the for loop
    current_question,  \* _parse_questions: the open item, <<>> (None) or <<dict>>
    current_text,      \* _parse_questions: the open item's accumulated lines
    questions,         \* _parse_questions: the emitted questions
    chunks,            \* create_question_chunks, chunk_text: the chunk list
    pc,                \* position in the function that is running
    input,             \* a text handed to one of the classifiers on its own
    verdict,           \* the classifier called on input, and what it returned
    first,             \* what the first run returned, once a second one is asked for
    content,           \* chunk_text: the text to chunk (its parameter text)
    start,             \* chunk_text: start of the next chunk
    max_history_length,\* ChatManager.max_history_length
    sessions,          \* ChatManager.sessions: session id -> messages, last_activity
    now,               \* datetime.now(), in ticks
    added,             \* per session id, the messages added since creation or last clear
    call               \* the last ChatManager call and whether it raised

\* PDFProcessor.chunk_text and the ChatManager, idle while the extractor runs
chunker == <<content, start>>
chat == <<max_history_length, sessions, now, added, call>>

vars == <<pages, full_text, scenarios, lines, idx, current_question, current_text,
          questions, chunks, pc, input, verdict, first, chunker, chat>>

(***************************************************************************)
(* Characters and the str methods the extractor uses.                      *)
(***************************************************************************)
Char(s, i) == SubSeq(s, i, i)

UpperAlphabet == "ABCDEFGHIJKLMNOPQRSTUVWXYZ"
LowerAlphabet == "abcdefghijklmnopqrstuvwxyz"
AlphabetSize == Len(UpperAlphabet)

UpperLetters == {Char(UpperAlphabet, i) : i \in 1..AlphabetSize}
LowerLetters == {Char(LowerAlphabet, i) : i \in 1..AlphabetSize}
Letters == UpperLetters \cup LowerLetters
Digits == {"0", "1", "2", "3", "4", "5", "6", "7", "8", "9"}
AlphaNum == Digits \cup Letters
Whitespace == {" ", "\t", "\n"}
DotParen == {".", ")"}
RomanChars == {"i", "v", "x", "I", "V", "X"}

ToLower == [c \in UpperLetters |->
              Char(LowerAlphabet, CHOOSE i \in 1..AlphabetSize : Char(UpperAlphabet, i) = c)]

LowerChar(c) == IF c \in UpperLetters THEN ToLower[c] ELSE c

\* str.lower()
RECURSIVE Lower(_)
Lower(s) ==
    IF Len(s) <= 1 THEN LowerChar(s)
    ELSE LET h == Len(s) \div 2
         IN Lower(SubSeq(s, 1, h)) \o Lower(SubSeq(s, h + 1, Len(s)))

\* The first index >= i of s whose character is not in class C (Len(s)+1 if none):
\* where a greedy C* started at i stops.
RECURSIVE SpanIn(_, _, _)
SpanIn(s, i, C) ==
    IF i <= Len(s) /\ Char(s, i) \in C THEN SpanIn(s, i + 1, C) ELSE i

\* The first index >= i of s whose character is in class C (Len(s)+1 if none).
RECURSIVE SpanNotIn(_, _, _)
SpanNotIn(s, i, C) ==
    IF i <= Len(s) /\ Char(s, i) \notin C THEN SpanNotIn(s, i + 1, C) ELSE i

\* The last index <= j of s whose character is not whitespace (0 if none).
RECURSIVE LastNonSpace(_, _)
LastNonSpace(s, j) ==
    IF j >= 1 /\ Char(s, j) \in Whitespace THEN LastNonSpace(s, j - 1) ELSE j

\* str.strip()
Strip(s) == SubSeq(s, SpanIn(s, 1, Whitespace), LastNonSpace(s, Len(s)))

\* s[:n]
Prefix(s, n) == SubSeq(s, 1, IF Len(s) < n THEN Len(s) ELSE n)

\* sub in s
Contains(s, sub) ==
    \E i \in 1..(Len(s) - Len(sub) + 1) : SubSeq(s, i, i + Len(sub) - 1) = sub

\* any(word in s for word in words)
ContainsAny(s, words) == \E w \in words : Contains(s, w)

\* s.split('\n')
SplitLines(s) ==
    LET nl == {i \in 1..Len(s) : Char(s, i) = "\n"}
        n == Cardinality(nl)
        Kth(k) == IF k = 0 THEN 0
                  ELSE IF k = n + 1 THEN Len(s) + 1
                  ELSE CHOOSE i \in nl : Cardinality({j \in nl : j < i}) = k - 1
    IN [k \in 1..(n + 1) |-> SubSeq(s, Kth(k - 1) + 1, Kth(k) - 1)]

\* sep.join(parts)
RECURSIVE Join(_, _)
Join(sep, parts) ==
    IF parts = <<>> THEN ""
    ELSE IF Len(parts) = 1 THEN parts[1]
    ELSE parts[1] \o sep \o Join(sep, Tail(parts))

\* s.split()[0].lower() if s.split() else ''
FirstWordLower(s) ==
    LET a == SpanIn(s, 1, Whitespace)
        b == SpanNotIn(s, a, Whitespace)
    IN Lower(SubSeq(s, a, b - 1))

(***************************************************************************)
(* The marker patterns (question_patterns), each under re.IGNORECASE.      *)
(* A pattern operator returns the length of the match of group 1, 0 when   *)
(* the pattern does not match at the start of s.                           *)
(***************************************************************************)
\* ^(C+[\.\)]\s+) for a character class C
MatchRunMarker(s, C) ==
    LET a == SpanIn(s, 1, C)
        b == SpanIn(s, a + 1, Whitespace)
    IN IF a > 1 /\ a <= Len(s) /\ Char(s, a) \in DotParen /\ b > a + 1
       THEN b - 1 ELSE 0

\* ^([a-z][\.\)]\s+) and ^([A-Z][\.\)]\s+): one letter, of either case under IGNORECASE
MatchLetterMarker(s) ==
    LET b == SpanIn(s, 3, Whitespace)
    IN IF Len(s) >= 3 /\ Char(s, 1) \in Letters /\ Char(s, 2) \in DotParen /\ b > 3
       THEN b - 1 ELSE 0

\* ^(<word>\s+\d+) for the literal word, case-insensitively
MatchKeywordMarker(s, word) ==
    LET w == Len(word)
        a == SpanIn(s, w + 1, Whitespace)
        b == SpanIn(s, a, Digits)
    IN IF Len(s) > w /\ Lower(SubSeq(s, 1, w)) = word /\ a > w + 1 /\ b > a
       THEN b - 1 ELSE 0

NumPatterns == 7

PatternMatch(k, s) ==
    CASE k = 1 -> MatchRunMarker(s, Digits)
      [] k = 2 -> MatchLetterMarker(s)
      [] k = 3 -> MatchLetterMarker(s)
      [] k = 4 -> MatchKeywordMarker(s, "question")
      [] k = 5 -> MatchKeywordMarker(s, "problem")
      [] k = 6 -> MatchKeywordMarker(s, "exercise")
      [] k = 7 -> MatchRunMarker(s, RomanChars)

NoMatch == [matched |-> FALSE, kind |-> 0, id |-> ""]

\* MatchQuestionPattern with the id left as matched, trailing whitespace included
MatchQuestionPattern_NoStrip(line) ==
    LET hits == {k \in 1..NumPatterns : PatternMatch(k, line) > 0}
    IN IF hits = {} THEN NoMatch
       ELSE LET k == CHOOSE h \in hits : \A g \in hits : h <= g
            IN [matched |-> TRUE, kind |-> k,
                id |-> SubSeq(line, 1, PatternMatch(k, line))]

\* The Line Classifier: the pattern loop of _parse_questions. The first pattern
\* that matches decides; the id is group 1, stripped.
MatchQuestionPattern(line) ==
    LET hits == {k \in 1..NumPatterns : PatternMatch(k, line) > 0}
    IN IF hits = {} THEN NoMatch
       ELSE LET k == CHOOSE h \in hits : \A g \in hits : h <= g
            IN [matched |-> TRUE, kind |-> k,
                id |-> Strip(SubSeq(line, 1, PatternMatch(k, line)))]

\* _is_question_start
IsQuestionStart(text) ==
    \E k \in 1..NumPatterns : PatternMatch(k, Strip(text)) > 0

(***************************************************************************)
(* The Question-Text Classifier.                                           *)
(***************************************************************************)
InterrogativeWords == {"what", "why", "how", "when", "where", "who", "which"}

ImperativeWords ==
    {"explain", "describe", "define", "compare", "discuss",
     "analyze", "evaluate", "calculate", "prepare", "compute",
     "determine", "identify", "list", "state", "illustrate",
     "justify", "prove", "show", "demonstrate", "outline"}

TransactionIndicators ==
    {"invested", "purchased", "paid", "received", "sold",
     "bought", "acquired", "issued", "collected", "borrowed",
     "provided", "completed", "recorded", "transferred"}

DollarWindow == 50
ShortItemLen == 100

\* re.sub(r'^<C>+[\.\)]\s*', '', text)
StripPrefix(text, C) ==
    LET a == SpanIn(text, 1, C)
    IN IF a > 1 /\ a <= Len(text) /\ Char(text, a) \in DotParen
       THEN SubSeq(text, SpanIn(text, a + 1, Whitespace), Len(text))
       ELSE text

\* IsActualQuestion taking every text under 100 characters for a question before
\* the transaction rules are tried
IsActualQuestion_ShortWins(text) ==
    LET text_without_number == StripPrefix(text, AlphaNum)
        first_word == FirstWordLower(text_without_number)
    IN IF Contains(text, "?") THEN TRUE
       ELSE IF first_word \in InterrogativeWords THEN TRUE
       ELSE IF first_word \in ImperativeWords THEN TRUE
       ELSE IF Len(text) < ShortItemLen THEN TRUE
       ELSE IF first_word \in TransactionIndicators THEN FALSE
       ELSE IF Contains(Prefix(text, DollarWindow), "$") THEN FALSE
       ELSE FALSE

\* IsActualQuestion without rule 6, the short-item rule
IsActualQuestion_NoShortRule(text) ==
    LET text_without_number == StripPrefix(text, AlphaNum)
        first_word == FirstWordLower(text_without_number)
    IN IF Contains(text, "?") THEN TRUE
       ELSE IF first_word \in InterrogativeWords THEN TRUE
       ELSE IF first_word \in ImperativeWords THEN TRUE
       ELSE FALSE

\* IsActualQuestion with the transaction rules tried before the question mark
IsActualQuestion_TransactionFirst(text) ==
    LET text_lower == Lower(text)
        text_without_number == StripPrefix(text, AlphaNum)
        first_word == FirstWordLower(text_without_number)
    IN IF first_word \in TransactionIndicators THEN FALSE
       ELSE IF Contains(Prefix(text, DollarWindow), "$") THEN FALSE
       ELSE IF Contains(text, "?") THEN TRUE
       ELSE IF first_word \in InterrogativeWords THEN TRUE
       ELSE IF first_word \in ImperativeWords THEN TRUE
       ELSE IF Len(text) < ShortItemLen
               /\ ~ContainsAny(text_lower, TransactionIndicators)
               /\ ~Contains(text, "$") THEN TRUE
       ELSE FALSE

IsActualQuestion(text) ==
    LET text_lower == Lower(text)
        text_without_number == StripPrefix(text, AlphaNum)
        first_word == FirstWordLower(text_without_number)
    IN IF Contains(text, "?") THEN TRUE
       ELSE IF first_word \in InterrogativeWords THEN TRUE
       ELSE IF first_word \in ImperativeWords THEN TRUE
       ELSE IF first_word \in TransactionIndicators THEN FALSE
       ELSE IF Contains(Prefix(text, DollarWindow), "$") THEN FALSE
       ELSE IF Len(text) < ShortItemLen
               /\ ~ContainsAny(text_lower, TransactionIndicators)
               /\ ~Contains(text, "$") THEN TRUE
       ELSE FALSE

(***************************************************************************)
(* Sub-items.                                                              *)
(***************************************************************************)
SubItemMaxLen == 100

SubItemImperativeWords ==
    {"explain", "describe", "define", "compare", "discuss",
     "analyze", "evaluate", "calculate", "prepare", "compute"}

\* re.match(r'^[ivxIVX]+[\.\)]$', s)
IsRomanId(s) ==
    /\ Len(s) >= 2
    /\ SpanIn(s, 1, RomanChars) = Len(s)
    /\ Char(s, Len(s)) \in DotParen

\* IsSubItem taking only an id of two or more roman letters for a roman numeral
IsSubItem_MultiLetter(question_id, line) ==
    IF IsRomanId(Strip(question_id)) /\ Len(Strip(question_id)) > 2
    THEN IF Len(line) < SubItemMaxLen
         THEN LET first_word == FirstWordLower(StripPrefix(line, RomanChars))
              IN first_word \notin InterrogativeWords
                 /\ first_word \notin SubItemImperativeWords
         ELSE FALSE
    ELSE FALSE

\* _is_sub_item
IsSubItem(question_id, line) ==
    IF IsRomanId(Strip(question_id))
    THEN IF Len(line) < SubItemMaxLen
         THEN LET first_word == FirstWordLower(StripPrefix(line, RomanChars))
              IN first_word \notin InterrogativeWords
                 /\ first_word \notin SubItemImperativeWords
         ELSE FALSE
    ELSE FALSE

(***************************************************************************)
(* The Scenario Detector.                                                  *)
(***************************************************************************)
ScenarioIndicators ==
    {"following scenario", "case study", "consider the following",
     "given the following", "background:", "context:", "scenario:"}

LongBlockLen == 200
ScenarioWindow == 3

\* IsScenarioBlock taking every numbered block for a scenario, question or not
IsScenarioBlock_AllNumbered(text) ==
    LET text_lower == Lower(text)
    IN IF ContainsAny(text_lower, ScenarioIndicators) THEN TRUE
       ELSE IF MatchRunMarker(Strip(text), Digits) > 0 THEN TRUE
       ELSE IF Len(text) > LongBlockLen /\ ~IsQuestionStart(text)
               /\ ~IsActualQuestion(text) THEN TRUE
       ELSE FALSE

\* IsScenarioBlock without the long-paragraph rule
IsScenarioBlock_NoLength(text) ==
    LET text_lower == Lower(text)
    IN IF ContainsAny(text_lower, ScenarioIndicators) THEN TRUE
       ELSE IF MatchRunMarker(Strip(text), Digits) > 0 /\ ~IsActualQuestion(text) THEN TRUE
       ELSE FALSE

IsScenarioBlock(text) ==
    LET text_lower == Lower(text)
    IN IF ContainsAny(text_lower, ScenarioIndicators) THEN TRUE
       ELSE IF MatchRunMarker(Strip(text), Digits) > 0 /\ ~IsActualQuestion(text) THEN TRUE
       ELSE IF Len(text) > LongBlockLen /\ ~IsQuestionStart(text)
               /\ ~IsActualQuestion(text) THEN TRUE
       ELSE FALSE

\* AbsorbBlocks going on to the first item-start however far it is
RECURSIVE AbsorbBlocks_NoWindow(_, _, _)
AbsorbBlocks_NoWindow(blocks, i, j) ==
    IF j <= Len(blocks) /\ ~IsQuestionStart(blocks[j].text)
    THEN <<blocks[j].text>> \o AbsorbBlocks_NoWindow(blocks, i, j + 1)
    ELSE <<>>

\* The while loop of _identify_scenarios: the texts of the blocks from j on that the
\* scenario started at block i absorbs.
RECURSIVE AbsorbBlocks(_, _, _)
AbsorbBlocks(blocks, i, j) ==
    IF j <= Len(blocks) /\ j < i + ScenarioWindow /\ ~IsQuestionStart(blocks[j].text)
    THEN <<blocks[j].text>> \o AbsorbBlocks(blocks, i, j + 1)
    ELSE <<>>

\* PageScenarios going on behind the blocks a scenario absorbed
RECURSIVE PageScenarios_SkipAbsorbed(_, _)
PageScenarios_SkipAbsorbed(page, i) ==
    IF i > Len(page.blocks) THEN <<>>
    ELSE IF IsScenarioBlock(page.blocks[i].text)
         THEN LET absorbed == AbsorbBlocks(page.blocks, i, i + 1)
              IN <<[text |-> Join("\n\n", <<page.blocks[i].text>> \o absorbed),
                    page |-> page.page_number,
                    block_num |-> page.blocks[i].block_num]>>
                 \o PageScenarios_SkipAbsorbed(page, i + 1 + Len(absorbed))
         ELSE PageScenarios_SkipAbsorbed(page, i + 1)

\* The block loop of _identify_scenarios over one page, from block i on.
RECURSIVE PageScenarios(_, _)
PageScenarios(page, i) ==
    IF i > Len(page.blocks) THEN <<>>
    ELSE (IF IsScenarioBlock(page.blocks[i].text)
          THEN <<[text |-> Join("\n\n", <<page.blocks[i].text>>
                                            \o AbsorbBlocks(page.blocks, i, i + 1)),
                  page |-> page.page_number,
                  block_num |-> page.blocks[i].block_num]>>
          ELSE <<>>)
         \o PageScenarios(page, i + 1)

\* _identify_scenarios
RECURSIVE IdentifyScenarios(_)
IdentifyScenarios(pgs) ==
    IF pgs = <<>> THEN <<>>
    ELSE PageScenarios(Head(pgs), 1) \o IdentifyScenarios(Tail(pgs))

(***************************************************************************)
(* The Context Enhancer.                                                   *)
(***************************************************************************)
TableReferenceKeywords ==
    {"table", "trial balance", "balance sheet", "given below",
     "following data", "from the", "using the data"}

ImageReferenceKeywords ==
    {"figure", "diagram", "chart", "graph", "image",
     "picture", "illustration", "shown"}

\* all_tables: the tables of every page, in page order
RECURSIVE AllTables(_)
AllTables(pgs) ==
    IF pgs = <<>> THEN <<>> ELSE Head(pgs).tables \o AllTables(Tail(pgs))

\* all_images
RECURSIVE AllImages(_)
AllImages(pgs) ==
    IF pgs = <<>> THEN <<>> ELSE Head(pgs).images \o AllImages(Tail(pgs))

\* EnhanceQuestionContext flagging a table or an image whenever the document has one
EnhanceQuestionContext_AnyTable(question, pgs, scens) ==
    [question EXCEPT
       !.has_table = IF Len(AllTables(pgs)) > 0 THEN TRUE ELSE @,
       !.has_image = IF Len(AllImages(pgs)) > 0 THEN TRUE ELSE @,
       !.has_scenario = IF Len(scens) > 0 THEN TRUE ELSE @]

\* EnhanceQuestionContext flagging a scenario only for a question that refers to one,
\* the way it flags tables and images
EnhanceQuestionContext_ByReference(question, pgs, scens) ==
    LET question_text_lower == Lower(question.text)
        has_table_reference == ContainsAny(question_text_lower, TableReferenceKeywords)
        has_image_reference == ContainsAny(question_text_lower, ImageReferenceKeywords)
        has_scenario_reference ==
            ContainsAny(question_text_lower, {"transaction", "scenario", "above"})
    IN [question EXCEPT
          !.has_table = IF has_table_reference /\ Len(AllTables(pgs)) > 0 THEN TRUE ELSE @,
          !.has_image = IF has_image_reference /\ Len(AllImages(pgs)) > 0 THEN TRUE ELSE @,
          !.has_scenario = IF has_scenario_reference /\ Len(scens) > 0 THEN TRUE ELSE @]

\* _enhance_question_context: the question as the call leaves it
EnhanceQuestionContext(question, pgs, scens) ==
    LET question_text_lower == Lower(question.text)
        has_table_reference == ContainsAny(question_text_lower, TableReferenceKeywords)
        has_image_reference == ContainsAny(question_text_lower, ImageReferenceKeywords)
    IN [question EXCEPT
          !.has_table = IF has_table_reference /\ Len(AllTables(pgs)) > 0 THEN TRUE ELSE @,
          !.has_image = IF has_image_reference /\ Len(AllImages(pgs)) > 0 THEN TRUE ELSE @,
          !.has_scenario = IF Len(scens) > 0 THEN TRUE ELSE @]

(***************************************************************************)
(* The Chunk Synthesizer. An Optional[str] is <<>> (None) or <<s>>; a table *)
(* cell is <<>> (None) or <<s>>.                                           *)
(***************************************************************************)
\* Python truthiness of an Optional[str]
Truthy(opt) == opt # <<>> /\ opt[1] # ""

\* FindRelevantScenario returning the first scenario detected
FindRelevantScenario_First(question, scens) ==
    IF ~question.has_scenario THEN <<>>
    ELSE IF scens # <<>> THEN <<scens[1].text>>
    ELSE <<>>

\* _find_relevant_scenario
FindRelevantScenario(question, scens) ==
    IF ~question.has_scenario THEN <<>>
    ELSE IF scens # <<>> THEN <<scens[Len(scens)].text>>
    ELSE <<>>

\* " | ".join(str(cell) if cell else "" for cell in row)
FormatRow(row) ==
    Join(" | ", [c \in 1..Len(row) |-> IF Truthy(row[c]) THEN row[c][1] ELSE ""])

\* _format_table_as_text
FormatTableAsText(table_data) ==
    IF table_data = <<>> THEN ""
    ELSE Join("\n", [r \in 1..Len(table_data) |-> FormatRow(table_data[r])])

\* FindRelevantTable returning the first table of the document
FindRelevantTable_First(question, pgs) ==
    LET all_tables == AllTables(pgs)
    IN IF ~question.has_table THEN <<>>
       ELSE IF all_tables = <<>> THEN <<>>
       ELSE <<FormatTableAsText(all_tables[1].data)>>

\* _find_relevant_table
FindRelevantTable(question, pgs) ==
    LET all_tables == AllTables(pgs)
    IN IF ~question.has_table THEN <<>>
       ELSE IF all_tables = <<>> THEN <<>>
       ELSE <<FormatTableAsText(all_tables[Len(all_tables)].data)>>

\* list.insert(k, x), k a Python index
InsertAt(list, k, x) ==
    LET n == IF k > Len(list) THEN Len(list) ELSE k
    IN SubSeq(list, 1, n) \o <<x>> \o SubSeq(list, n + 1, Len(list))

\* ChunkTextParts inserting the table section at index 0 whatever came before
ChunkTextParts_TableFirst(question, pgs, scens) ==
    LET scenario_text == FindRelevantScenario(question, scens)
        table_text == FindRelevantTable(question, pgs)
        parts0 == <<"Question: " \o question.text>>
        parts1 == IF Truthy(scenario_text)
                  THEN InsertAt(parts0, 0, "Context/Scenario:\n" \o scenario_text[1])
                  ELSE parts0
    IN IF Truthy(table_text)
       THEN InsertAt(parts1, 0, "Table:\n" \o table_text[1])
       ELSE parts1

\* chunk_text_parts of one question, as the body of the question loop builds it
ChunkTextParts(question, pgs, scens) ==
    LET scenario_text == FindRelevantScenario(question, scens)
        table_text == FindRelevantTable(question, pgs)
        parts0 == <<"Question: " \o question.text>>
        parts1 == IF Truthy(scenario_text)
                  THEN InsertAt(parts0, 0, "Context/Scenario:\n" \o scenario_text[1])
                  ELSE parts0
    IN IF Truthy(table_text)
       THEN InsertAt(parts1, IF Truthy(scenario_text) THEN 1 ELSE 0,
                     "Table:\n" \o table_text[1])
       ELSE parts1

\* The chunk the question loop of create_question_chunks appends
QuestionChunk(question, pgs, scens) ==
    [text |-> Join("\n\n", ChunkTextParts(question, pgs, scens)),
     metadata |-> [type |-> "question",
                   question_id |-> question.id,
                   has_scenario |-> question.has_scenario,
                   has_table |-> question.has_table,
                   has_image |-> question.has_image,
                   question_only |-> question.text]]

\* The scenario loop of create_question_chunks from scenario k on, cs the chunks so far
RECURSIVE AddScenarioChunks(_, _, _)
AddScenarioChunks(cs, scens, k) ==
    IF k > Len(scens) THEN cs
    ELSE IF ~(\E c \in 1..Len(cs) : Contains(cs[c].text, scens[k].text))
         THEN AddScenarioChunks(
                  Append(cs, [text |-> "Context/Background:\n" \o scens[k].text,
                              metadata |-> [type |-> "scenario", page |-> scens[k].page]]),
                  scens, k + 1)
         ELSE AddScenarioChunks(cs, scens, k + 1)

\* CreateChunks emitting a standalone chunk for every scenario
CreateChunks_AllScenarios(qs, pgs, scens) ==
    [q \in 1..Len(qs) |-> QuestionChunk(qs[q], pgs, scens)]
        \o [k \in 1..Len(scens) |->
               [text |-> "Context/Background:\n" \o scens[k].text,
                metadata |-> [type |-> "scenario", page |-> scens[k].page]]]

\* CreateChunks returning the standalone scenario chunks ahead of the question chunks
CreateChunks_ScenariosFirst(qs, pgs, scens) ==
    LET all == AddScenarioChunks([q \in 1..Len(qs) |-> QuestionChunk(qs[q], pgs, scens)],
                                 scens, 1)
    IN SubSeq(all, Len(qs) + 1, Len(all)) \o SubSeq(all, 1, Len(qs))

\* create_question_chunks
CreateChunks(qs, pgs, scens) ==
    AddScenarioChunks([q \in 1..Len(qs) |-> QuestionChunk(qs[q], pgs, scens)], scens, 1)

(***************************************************************************)
(* The documents the pipeline is run on: what _extract_page_content hands  *)
(* over. A block's text is stripped and not empty; a table has at least    *)
(* one row.                                                                *)
(***************************************************************************)
MaxBlocks == 2
MaxPages == 2

Filler ==
    "alpha beta gamma delta epsilon zeta eta theta iota kappa lambda mu nu xi omicron pi rho sigma tau upsilon phi chi psi omega alpha beta gamma delta epsilon zeta eta theta iota kappa lambda mu nu xi omicron pi rho sigma tau upsilon phi chi psi omega alpha beta gamma delta epsilon zeta eta"

\* s continued with filler words to exactly n characters, ending in a full stop
PadTo(s, n) == s \o " " \o SubSeq(Filler, 1, n - Len(s) - 2) \o "."

ExampleLen == 250

TransactionsBlock ==
    "1. The firm had the following transactions:\na) Invested $1,000.\nb) Explain why revenue was recognized."

PurchaseBlock == "2. Purchased equipment for $500 cash."
DataQuestionBlock ==
    "Question 3 Using the data in the table shown in the figure, compute net income."
GoodwillBlock == "i. What is goodwill?"

ConsiderBlock == "Consider the following events of Acme Ltd."
NotesBlock == "Notes:  \n\n \tsee the ledger"
StateAssetsBlock == "ii) State the assets."
RetainedBlock == "v) retained earnings"

BlockCatalogue ==
    { TransactionsBlock,
      ConsiderBlock,
      PurchaseBlock,
      DataQuestionBlock,
      "ii) bonus shares",
      "iii) Explain the effect on equity.",
      GoodwillBlock,
      NotesBlock,
      PadTo("c) State the", 120),
      PadTo("The company", ExampleLen),
      PadTo("What the company", ExampleLen),
      PadTo("b) The company", ExampleLen),
      PadTo("3. The company", ExampleLen) }

LedgerTable == << << <<"Account">>, <<"Debit">> >>, << <<"Cash">>, <<"100">> >> >>
SparseTable == << << <<"Item">>, <<>>, <<"">> >>, << <<>>, <<"7">>, <<"x">> >> >>
BlankTable == << << <<>>, <<"">> >> >>
NoTextTable == << << <<>> >> >>
BlankRowsTable == << << <<>> >>, << <<"">> >> >>

\* The pages of the documents with tables and images: block texts, tables, images
PageCatalogue ==
    { [texts |-> <<>>, tables |-> <<>>, images |-> 0],
      [texts |-> <<>>, tables |-> <<LedgerTable>>, images |-> 1],
      [texts |-> <<DataQuestionBlock>>, tables |-> <<>>, images |-> 0],
      [texts |-> <<DataQuestionBlock>>, tables |-> <<SparseTable, BlankTable>>, images |-> 1],
      [texts |-> <<GoodwillBlock>>, tables |-> <<LedgerTable>>, images |-> 0],
      [texts |-> <<GoodwillBlock, DataQuestionBlock>>, tables |-> <<NoTextTable>>, images |-> 0],
      [texts |-> <<PurchaseBlock>>, tables |-> <<>>, images |-> 1],
      [texts |-> <<DataQuestionBlock>>, tables |-> <<BlankRowsTable>>, images |-> 0] }

SeqsUpTo(S, n) == UNION {[1..k -> S] : k \in 0..n}

\* One page as _extract_page_content returns it
MkPage(page_number, texts, tables, images) ==
    [page_number |-> page_number,
     text |-> Join("\n\n", texts),
     blocks |-> [b \in 1..Len(texts) |-> [block_num |-> b - 1, text |-> texts[b]]],
     tables |-> [t \in 1..Len(tables) |->
                    [table_num |-> t - 1, data |-> tables[t], page |-> page_number]],
     images |-> [g \in 1..images |-> [img_num |-> g - 1, page |-> page_number]]]

\* One page of text, up to MaxBlocks blocks of the catalogue
TextDocuments ==
    { <<MkPage(1, texts, <<>>, 0)>> : texts \in SeqsUpTo(BlockCatalogue, MaxBlocks) }

\* Up to MaxPages pages of the page catalogue
InventoryDocuments ==
    { [p \in 1..Len(ps) |-> MkPage(p, ps[p].texts, ps[p].tables, ps[p].images)] :
        ps \in SeqsUpTo(PageCatalogue, MaxPages) }

\* One page of exactly StoryLen blocks: scenarios, items and sub-item lines in a row
StoryLen == 3

StoryCatalogue ==
    {PurchaseBlock, ConsiderBlock, TransactionsBlock, StateAssetsBlock, RetainedBlock}

StoryDocuments ==
    { <<MkPage(1, texts, <<>>, 0)>> : texts \in [1..StoryLen -> StoryCatalogue] }

\* One page of exactly WindowLen blocks, more than one scenario can absorb
WindowLen == 4

WindowCatalogue == {ConsiderBlock, RetainedBlock, NotesBlock}

WindowDocuments ==
    { <<MkPage(1, texts, <<>>, 0)>> : texts \in [1..WindowLen -> WindowCatalogue] }

Documents ==
    TextDocuments \cup InventoryDocuments \cup StoryDocuments \cup WindowDocuments

(***************************************************************************)
(* extract_structured_content followed by create_question_chunks.          *)
(***************************************************************************)
Idle == [op |-> "none", result |-> FALSE]

\* No text is being chunked, and no ChatManager has been constructed
ServicesIdle ==
    /\ content = ""
    /\ start = 0
    /\ max_history_length = 0
    /\ sessions = <<>>
    /\ now = 0
    /\ added = <<>>
    /\ call = [op |-> "none"]

Init ==
    /\ ServicesIdle
    /\ pages \in Documents
    /\ full_text = ""
    /\ scenarios = <<>>
    /\ lines = <<>>
    /\ idx = 0
    /\ current_question = <<>>
    /\ current_text = <<>>
    /\ questions = <<>>
    /\ chunks = <<>>
    /\ pc = "extracted"
    /\ input = ""
    /\ verdict = Idle
    /\ first = <<>>

\* structured_content['full_text'] = '\n\n'.join(all_text)
CombineText ==
    /\ pc = "extracted"
    /\ full_text' = Join("\n\n", [p \in 1..Len(pages) |-> pages[p].text])
    /\ pc' = "identify"
    /\ UNCHANGED <<chunker, chat, first, pages, scenarios, lines, idx, current_question,
                   current_text,
                   questions, chunks, input, verdict>>

\* structured_content['scenarios'] = self._identify_scenarios(structured_content)
IdentifyScenariosStep ==
    /\ pc = "identify"
    /\ scenarios' = IdentifyScenarios(pages)
    /\ pc' = "parse"
    /\ UNCHANGED <<chunker, chat, first, pages, full_text, lines, idx, current_question,
                   current_text,
                   questions, chunks, input, verdict>>

\* ParseStart keeping the item and the lines an earlier call left open
ParseStart_KeepOpen ==
    /\ pc = "parse"
    /\ questions' = <<>>
    /\ lines' = SplitLines(full_text)
    /\ idx' = 1
    /\ pc' = "lines"
    /\ UNCHANGED <<chunker, chat, first, pages, full_text, scenarios, chunks, input,
                   verdict,
                   current_question, current_text>>

\* _parse_questions up to its for loop
ParseStart ==
    /\ pc = "parse"
    /\ questions' = <<>>
    /\ lines' = SplitLines(full_text)
    /\ idx' = 1
    /\ current_question' = <<>>
    /\ current_text' = <<>>
    /\ pc' = "lines"
    /\ UNCHANGED <<chunker, chat, first, pages, full_text, scenarios, chunks, input,
                   verdict>>

\* SaveQuestion keeping the closed item whatever the classifier says
SaveQuestion_Unchecked(qs, cur, cur_text) ==
    IF cur # <<>> /\ cur_text # <<>>
    THEN Append(qs, [cur[1] EXCEPT !.text = Join("\n", cur_text)])
    ELSE qs

\* SaveQuestion without the test that an item is open
SaveQuestion_NoGuard(qs, cur, cur_text) ==
    LET full_item_text == Join("\n", cur_text)
    IN IF IsActualQuestion(full_item_text)
       THEN Append(qs, [id |-> IF cur = <<>> THEN "" ELSE cur[1].id,
                        full_line |-> IF cur = <<>> THEN "" ELSE cur[1].full_line,
                        text |-> full_item_text,
                        has_scenario |-> FALSE, has_table |-> FALSE, has_image |-> FALSE])
       ELSE qs

\* "Save previous question if it's actually a question": the list of questions after
\* the open item is closed
SaveQuestion(qs, cur, cur_text) ==
    IF cur # <<>> /\ cur_text # <<>>
    THEN LET full_item_text == Join("\n", cur_text)
         IN IF IsActualQuestion(full_item_text)
            THEN Append(qs, [cur[1] EXCEPT !.text = full_item_text])
            ELSE qs
    ELSE qs

\* The new potential question a marker line opens
NewQuestion(question_id, line) ==
    [id |-> question_id, full_line |-> line, text |-> "",
     has_scenario |-> FALSE, has_table |-> FALSE, has_image |-> FALSE]

\* ParseLine dropping a sub-item line that finds no item open
ParseLine_DropOrphanSubItem ==
    /\ pc = "lines"
    /\ idx <= Len(lines)
    /\ LET line == Strip(lines[idx])
           m == MatchQuestionPattern(line)
       IN IF line = ""
          THEN UNCHANGED <<current_question, current_text, questions>>
          ELSE IF m.matched
               THEN IF IsSubItem(m.id, line)
                    THEN IF current_question # <<>>
                         THEN /\ current_text' = Append(current_text, line)
                              /\ UNCHANGED <<current_question, questions>>
                         ELSE UNCHANGED <<current_question, current_text, questions>>
                    ELSE /\ questions' = SaveQuestion(questions, current_question,
                                                      current_text)
                         /\ current_question' = <<NewQuestion(m.id, line)>>
                         /\ current_text' = <<line>>
               ELSE IF current_question # <<>>
                    THEN /\ current_text' = Append(current_text, line)
                         /\ UNCHANGED <<current_question, questions>>
                    ELSE UNCHANGED <<current_question, current_text, questions>>
    /\ idx' = idx + 1
    /\ UNCHANGED <<chunker, chat, first, pages, full_text, scenarios, lines, chunks, pc,
                   input, verdict>>

\* ParseLine with a blank line closing the open item
ParseLine_CloseOnBlank ==
    /\ pc = "lines"
    /\ idx <= Len(lines)
    /\ LET line == Strip(lines[idx])
           m == MatchQuestionPattern(line)
       IN IF line = ""
          THEN /\ questions' = SaveQuestion(questions, current_question, current_text)
               /\ current_question' = <<>>
               /\ current_text' = <<>>
          ELSE IF m.matched
               THEN IF IsSubItem(m.id, line) /\ current_question # <<>>
                    THEN /\ current_text' = Append(current_text, line)
                         /\ UNCHANGED <<current_question, questions>>
                    ELSE /\ questions' = SaveQuestion(questions, current_question,
                                                      current_text)
                         /\ current_question' = <<NewQuestion(m.id, line)>>
                         /\ current_text' = <<line>>
               ELSE IF current_question # <<>>
                    THEN /\ current_text' = Append(current_text, line)
                         /\ UNCHANGED <<current_question, questions>>
                    ELSE UNCHANGED <<current_question, current_text, questions>>
    /\ idx' = idx + 1
    /\ UNCHANGED <<chunker, chat, first, pages, full_text, scenarios, lines, chunks, pc,
                   input, verdict>>

\* One iteration of the for loop of _parse_questions
ParseLine ==
    /\ pc = "lines"
    /\ idx <= Len(lines)
    /\ LET line == Strip(lines[idx])
           m == MatchQuestionPattern(line)
       IN IF line = ""
          THEN UNCHANGED <<current_question, current_text, questions>>
          ELSE IF m.matched
               THEN IF IsSubItem(m.id, line) /\ current_question # <<>>
                    THEN /\ current_text' = Append(current_text, line)
                         /\ UNCHANGED <<current_question, questions>>
                    ELSE /\ questions' = SaveQuestion(questions, current_question,
                                                      current_text)
                         /\ current_question' = <<NewQuestion(m.id, line)>>
                         /\ current_text' = <<line>>
               ELSE IF current_question # <<>>
                    THEN /\ current_text' = Append(current_text, line)
                         /\ UNCHANGED <<current_question, questions>>
                    ELSE UNCHANGED <<current_question, current_text, questions>>
    /\ idx' = idx + 1
    /\ UNCHANGED <<chunker, chat, first, pages, full_text, scenarios, lines, chunks, pc,
                   input, verdict>>

\* ParseEnd dropping the item still open at the end of the input
ParseEnd_NoFlush ==
    /\ pc = "lines"
    /\ idx > Len(lines)
    /\ pc' = "enhance"
    /\ UNCHANGED <<chunker, chat, first, pages, full_text, scenarios, lines, idx,
                   current_question,
                   current_text, questions, chunks, input, verdict>>

\* "Save last question if it's actually a question", after the for loop
ParseEnd ==
    /\ pc = "lines"
    /\ idx > Len(lines)
    /\ questions' = SaveQuestion(questions, current_question, current_text)
    /\ pc' = "enhance"
    /\ UNCHANGED <<chunker, chat, first, pages, full_text, scenarios, lines, idx,
                   current_question,
                   current_text, chunks, input, verdict>>

\* "Enhance questions with context": the loop that ends _parse_questions
EnhanceQuestions ==
    /\ pc = "enhance"
    /\ questions' = [q \in 1..Len(questions) |->
                        EnhanceQuestionContext(questions[q], pages, scenarios)]
    /\ pc' = "structured"
    /\ UNCHANGED <<chunker, chat, first, pages, full_text, scenarios, lines, idx,
                   current_question,
                   current_text, chunks, input, verdict>>

\* create_question_chunks(structured_content)
CreateQuestionChunks ==
    /\ pc = "structured"
    /\ chunks' = CreateChunks(questions, pages, scenarios)
    /\ pc' = "done"
    /\ UNCHANGED <<chunker, chat, first, pages, full_text, scenarios, lines, idx,
                   current_question,
                   current_text, questions, input, verdict>>

\* The lists a finished run has returned
Returned == [scenarios |-> scenarios, questions |-> questions, chunks |-> chunks]

\* The caller runs the stages of extract_structured_content and then
\* create_question_chunks a second time on the same structured_content
RunAgain ==
    /\ pc = "done"
    /\ first = <<>>
    /\ first' = <<Returned>>
    /\ pc' = "extracted"
    /\ UNCHANGED <<chunker, chat, pages, full_text, scenarios, lines, idx, current_question,
                   current_text, questions, chunks, input, verdict>>

\* The caller calls create_question_chunks a second time on the processed document
ChunkAgain ==
    /\ pc = "done"
    /\ first = <<>>
    /\ first' = <<Returned>>
    /\ pc' = "structured"
    /\ UNCHANGED <<chunker, chat, pages, full_text, scenarios, lines, idx, current_question,
                   current_text, questions, chunks, input, verdict>>

Next ==
    \/ CombineText
    \/ IdentifyScenariosStep
    \/ ParseStart
    \/ ParseLine
    \/ ParseEnd
    \/ EnhanceQuestions
    \/ CreateQuestionChunks
    \/ RunAgain
    \/ ChunkAgain

Spec == Init /\ [][Next]_vars

(***************************************************************************)
(* The classifiers on their own: each is a pure function of one text, and  *)
(* is called here on every text built from a marker, a first word and a    *)
(* continuation.                                                           *)
(***************************************************************************)
KeywordMarkers ==
    {"Question 2 ", "QUESTION  7 ", "Problem 3 ", "problem 4\t", "Exercise 10 ",
     "EXERCISE 1 "}

LetterMarkers == {"a) ", "B. ", "i. ", "x) ", "V.\t", "z.  "}

NumericMarkers == {"1. ", "12) "}

RomanMarkers == {"ii) ", "IV. ", "xiv)  "}

OtherPrefixes ==
    {"", "Mr. ", "(a) ", "Questions 2 ", "a.", "question 15: ", "Case Study: ",
     "Background: "}

Markers ==
    KeywordMarkers \cup LetterMarkers \cup NumericMarkers \cup RomanMarkers

OtherWords ==
    {"the", "shown", "What", "EXPLAIN", "Invested", "whoever", "lists", "unpaid"}

FirstWords ==
    InterrogativeWords \cup ImperativeWords \cup TransactionIndicators \cup OtherWords

VocabularyWords == InterrogativeWords \cup ImperativeWords \cup {"What", "EXPLAIN"}

LongLen == 130

ShortTails == {"", " is it due?", " the $5 fee", " the cash received today"}

Tails ==
    ShortTails \cup
    { PadTo(" the $5", LongLen) \o " Is it?",
      PadTo(" the", LongLen),
      PadTo(" the", LongLen) \o " $9",
      PadTo(" the", ExampleLen) }

Texts ==
    { Strip(m \o w \o t) : m \in Markers \cup OtherPrefixes, w \in FirstWords, t \in Tails }

ClassifyInit ==
    /\ ServicesIdle
    /\ input \in Texts
    /\ verdict = Idle
    /\ pages = <<>>
    /\ full_text = ""
    /\ scenarios = <<>>
    /\ lines = <<>>
    /\ idx = 0
    /\ current_question = <<>>
    /\ current_text = <<>>
    /\ questions = <<>>
    /\ chunks = <<>>
    /\ pc = "classify"
    /\ first = <<>>

pipeline == <<pages, full_text, scenarios, lines, idx, current_question, current_text,
              questions, chunks, pc, first, chunker, chat>>

\* The pattern loop of _parse_questions on the line input
CallMatchQuestionPattern ==
    /\ pc = "classify" /\ verdict = Idle
    /\ verdict' = [op |-> "match_question_pattern", result |-> MatchQuestionPattern(input)]
    /\ UNCHANGED <<pipeline, input>>

\* _is_actual_question(input)
CallIsActualQuestion ==
    /\ pc = "classify" /\ verdict = Idle
    /\ verdict' = [op |-> "is_actual_question", result |-> IsActualQuestion(input)]
    /\ UNCHANGED <<pipeline, input>>

\* _is_sub_item(question_id, input) for the id the pattern loop found in input
CallIsSubItem ==
    /\ pc = "classify" /\ verdict = Idle
    /\ MatchQuestionPattern(input).matched
    /\ verdict' = [op |-> "is_sub_item",
                   result |-> IsSubItem(MatchQuestionPattern(input).id, input)]
    /\ UNCHANGED <<pipeline, input>>

\* _is_scenario_block(input)
CallIsScenarioBlock ==
    /\ pc = "classify" /\ verdict = Idle
    /\ verdict' = [op |-> "is_scenario_block", result |-> IsScenarioBlock(input)]
    /\ UNCHANGED <<pipeline, input>>

\* _is_question_start(input)
CallIsQuestionStart ==
    /\ pc = "classify" /\ verdict = Idle
    /\ verdict' = [op |-> "is_question_start", result |-> IsQuestionStart(input)]
    /\ UNCHANGED <<pipeline, input>>

ClassifyNext ==
    \/ CallMatchQuestionPattern
    \/ CallIsActualQuestion
    \/ CallIsSubItem
    \/ CallIsScenarioBlock
    \/ CallIsQuestionStart

SpecClassify == ClassifyInit /\ [][ClassifyNext]_vars

(***************************************************************************)
(* PDFProcessor.chunk_text as the KnowledgeBase configures it:             *)
(* PDFProcessor(chunk_size=1000, chunk_overlap=200).                       *)
(***************************************************************************)
chunk_size == 1000
chunk_overlap == 200

\* How far either side of the target end a sentence ending is looked for
SentenceWindow == 100

SentenceEndings == {". ", "? ", "! "}

Max(a, b) == IF a >= b THEN a ELSE b
Min(a, b) == IF a <= b THEN a ELSE b

\* s[a:b] for 0 <= a
Slice(s, a, b) == SubSeq(s, Min(a, Len(s)) + 1, Min(b, Len(s)))

\* s.rfind(sub): the greatest 0-based index sub occurs at, -1 if it does not occur
RFind(s, sub) ==
    LET found == {i \in 0..(Len(s) - Len(sub)) : SubSeq(s, i + 1, i + Len(sub)) = sub}
    IN IF found = {} THEN -1 ELSE CHOOSE i \in found : \A j \in found : j <= i

\* ChunkEnd looking for a sentence ending from 300 characters before the target end
ChunkEnd_WideWindow(txt, from) ==
    LET end == from + chunk_size
    IN IF end < Len(txt)
       THEN LET search_start == Max(from + chunk_size - 3 * SentenceWindow, from)
                search_end == Min(end + SentenceWindow, Len(txt))
                chunk_text == Slice(txt, search_start, search_end)
                last_period == RFind(chunk_text, ". ")
                last_question == RFind(chunk_text, "? ")
                last_exclamation == RFind(chunk_text, "! ")
                break_point == Max(last_period, Max(last_question, last_exclamation))
            IN IF break_point > 0 THEN search_start + break_point + 2 ELSE end
       ELSE end

\* The end of the chunk that starts at from: the target end, moved to the last sentence
\* ending near it when the text goes on
ChunkEnd(txt, from) ==
    LET end == from + chunk_size
    IN IF end < Len(txt)
       THEN LET search_start == Max(from + chunk_size - SentenceWindow, from)
                search_end == Min(end + SentenceWindow, Len(txt))
                chunk_text == Slice(txt, search_start, search_end)
                last_period == RFind(chunk_text, ". ")
                last_question == RFind(chunk_text, "? ")
                last_exclamation == RFind(chunk_text, "! ")
                break_point == Max(last_period, Max(last_question, last_exclamation))
            IN IF break_point > 0 THEN search_start + break_point + 2 ELSE end
       ELSE end

\* The texts handed to chunk_text: words without punctuation, of lengths around the
\* chunk size and its multiples, with up to two sentence endings put at positions
\* around the search windows.
MaxTextLen == 2500

Words ==
    Filler \o " " \o Filler \o " " \o Filler \o " " \o Filler \o " " \o Filler \o " "
        \o Filler \o " " \o Filler \o " " \o Filler \o " " \o Filler \o " " \o Filler

TextLengths == {0, 1, 999, 1000, 1001, 1100, 1101, 1703, 1800, 1801, MaxTextLen}

EndingPositions == {750, 899, 900, 901, 950, 1098, 1099, 1604, 1700}

\* s with the sentence ending e written over the two characters at 0-based position p
PutEnding(s, p, e) ==
    IF p + 2 <= Len(s) THEN SubSeq(s, 1, p) \o e \o SubSeq(s, p + 3, Len(s)) ELSE s

PlainTexts == {SubSeq(Words, 1, n) : n \in TextLengths}

OneEndingTexts ==
    {PutEnding(s, p, e) : s \in PlainTexts, p \in EndingPositions, e \in SentenceEndings}

TwoEndingTexts ==
    {PutEnding(PutEnding(s, p, ". "), q, "? ") :
         s \in PlainTexts, p \in {901, 950}, q \in {901, 950, 1098, 1604}}

ChunkTexts == PlainTexts \cup OneEndingTexts \cup TwoEndingTexts

ChunkInit ==
    /\ content \in ChunkTexts
    /\ start = 0
    /\ chunks = <<>>
    /\ pc = "chunk_text"
    /\ pages = <<>>
    /\ full_text = ""
    /\ scenarios = <<>>
    /\ lines = <<>>
    /\ idx = 0
    /\ current_question = <<>>
    /\ current_text = <<>>
    /\ questions = <<>>
    /\ input = ""
    /\ verdict = Idle
    /\ first = <<>>
    /\ max_history_length = 0
    /\ sessions = <<>>
    /\ now = 0
    /\ added = <<>>
    /\ call = [op |-> "none"]

extractor == <<pages, full_text, scenarios, lines, idx, current_question, current_text,
               questions, input, verdict, first>>

\* chunk_text up to its while loop
ChunkTextStart ==
    /\ pc = "chunk_text"
    /\ IF Len(content) <= chunk_size
       THEN /\ chunks' = <<content>>
            /\ pc' = "returned"
            /\ UNCHANGED start
       ELSE /\ chunks' = <<>>
            /\ start' = 0
            /\ pc' = "while"
    /\ UNCHANGED <<content, extractor, chat>>

\* One iteration of the while loop of chunk_text
ChunkTextLoop ==
    /\ pc = "while"
    /\ start < Len(content)
    /\ \E end \in {ChunkEnd(content, start)} :
       \E chunk \in {Strip(Slice(content, start, end))} :
          /\ chunks' = IF chunk # "" THEN Append(chunks, chunk) ELSE chunks
          /\ start' = end - chunk_overlap
    /\ UNCHANGED <<content, pc, extractor, chat>>

\* The while loop ends and chunk_text returns chunks
ChunkTextReturn ==
    /\ pc = "while"
    /\ ~(start < Len(content))
    /\ pc' = "returned"
    /\ UNCHANGED <<content, start, chunks, extractor, chat>>

ChunkNext ==
    \/ ChunkTextStart
    \/ ChunkTextLoop
    \/ ChunkTextReturn

\* chunk_text is one sequential call: a step that can be taken is taken
SpecChunkText == ChunkInit /\ [][ChunkNext]_vars /\ WF_vars(ChunkNext)

(***************************************************************************)
(* The ChatManager. sessions maps every session id to <<>> (no such        *)
(* session) or <<dict>>; time is counted in ticks of the clock behind      *)
(* datetime.now().                                                         *)
(***************************************************************************)
MaxHistory == 2
MaxAdded == 3
MaxTime == 2
SessionTimeout == 1

\* The ids uuid.uuid4() hands out
SessionIds == {"6f1c", "b2e9"}

Roles == {"user", "assistant"}
Contents == {"What is goodwill?"}

\* session_id in self.sessions
SessionExists(session_id) == sessions[session_id] # <<>>

\* messages[-n:]
LastMessages(messages, n) ==
    IF n = 0 THEN messages
    ELSE SubSeq(messages, Max(Len(messages) - n, 0) + 1, Len(messages))

ChatInit ==
    /\ max_history_length \in 0..MaxHistory
    /\ sessions = [sid \in SessionIds |-> <<>>]
    /\ now = 0
    /\ added = [sid \in SessionIds |-> <<>>]
    /\ call = [op |-> "none"]
    /\ content = ""
    /\ start = 0
    /\ chunks = <<>>
    /\ pc = "chat"
    /\ pages = <<>>
    /\ full_text = ""
    /\ scenarios = <<>>
    /\ lines = <<>>
    /\ idx = 0
    /\ current_question = <<>>
    /\ current_text = <<>>
    /\ questions = <<>>
    /\ input = ""
    /\ verdict = Idle
    /\ first = <<>>

\* What the ChatManager leaves alone
processing == <<extractor, chunker, chunks, pc>>

\* create_session(): a session under an id no session has
CreateSession ==
    /\ \E session_id \in SessionIds :
          /\ ~SessionExists(session_id)
          /\ sessions' = [sessions EXCEPT ![session_id] =
                             <<[messages |-> <<>>, created_at |-> now,
                                last_activity |-> now]>>]
          /\ added' = [added EXCEPT ![session_id] = <<>>]
          /\ call' = [op |-> "create_session", session_id |-> session_id,
                      raised |-> FALSE]
    /\ UNCHANGED <<max_history_length, now, processing>>

\* add_message(session_id, role, content)
AddMessage ==
    /\ \E session_id \in SessionIds, role \in Roles, message_content \in Contents :
          IF ~SessionExists(session_id)
          THEN /\ call' = [op |-> "add_message", session_id |-> session_id,
                           raised |-> TRUE]
               /\ UNCHANGED <<sessions, added>>
          ELSE /\ Len(added[session_id]) < MaxAdded
               /\ LET message == [role |-> role, content |-> message_content,
                                  timestamp |-> now]
                      messages == Append(sessions[session_id][1].messages, message)
                  IN /\ sessions' = [sessions EXCEPT ![session_id] =
                                        <<[@[1] EXCEPT
                                             !.messages =
                                                 IF Len(messages) > max_history_length
                                                 THEN LastMessages(messages,
                                                                   max_history_length)
                                                 ELSE messages,
                                             !.last_activity = now]>>]
                     /\ added' = [added EXCEPT ![session_id] = Append(@, message)]
               /\ call' = [op |-> "add_message", session_id |-> session_id,
                           raised |-> FALSE]
    /\ UNCHANGED <<max_history_length, now, processing>>

\* clear_session(session_id)
ClearSession ==
    /\ \E session_id \in SessionIds :
          IF ~SessionExists(session_id)
          THEN /\ call' = [op |-> "clear_session", session_id |-> session_id,
                           raised |-> TRUE]
               /\ UNCHANGED <<sessions, added>>
          ELSE /\ sessions' = [sessions EXCEPT ![session_id] =
                                  <<[@[1] EXCEPT !.messages = <<>>,
                                                 !.last_activity = now]>>]
               /\ added' = [added EXCEPT ![session_id] = <<>>]
               /\ call' = [op |-> "clear_session", session_id |-> session_id,
                           raised |-> FALSE]
    /\ UNCHANGED <<max_history_length, now, processing>>

\* delete_session(session_id)
DeleteSession ==
    /\ \E session_id \in SessionIds :
          /\ sessions' = [sessions EXCEPT ![session_id] = <<>>]
          /\ added' = [added EXCEPT ![session_id] = <<>>]
          /\ call' = [op |-> "delete_session", session_id |-> session_id,
                      raised |-> FALSE]
    /\ UNCHANGED <<max_history_length, now, processing>>

\* now - data["last_activity"] > self.session_timeout
Expired(session_id) ==
    /\ SessionExists(session_id)
    /\ now - sessions[session_id][1].last_activity > SessionTimeout

\* cleanup_expired_sessions()
CleanupExpiredSessions ==
    /\ sessions' = [sid \in SessionIds |-> IF Expired(sid) THEN <<>> ELSE sessions[sid]]
    /\ added' = [sid \in SessionIds |-> IF Expired(sid) THEN <<>> ELSE added[sid]]
    /\ call' = [op |-> "cleanup_expired_sessions",
                session_id |-> "", raised |-> FALSE]
    /\ UNCHANGED <<max_history_length, now, processing>>

\* Time passes between two calls
Tick ==
    /\ now < MaxTime
    /\ now' = now + 1
    /\ UNCHANGED <<max_history_length, sessions, added, call, processing>>

ChatNext ==
    \/ CreateSession
    \/ AddMessage
    \/ ClearSession
    \/ DeleteSession
    \/ CleanupExpiredSessions
    \/ Tick

SpecChat == ChatInit /\ [][ChatNext]_vars

(***************************************************************************)
(* Properties.                                                             *)
(***************************************************************************)
Parsed == pc \in {"enhance", "structured", "done"}
Detected == pc \notin {"extracted", "identify"}
Enhanced == pc \in {"structured", "done"}

\* The document whose text is the three lines of the transactions example
TransactionsDocument == <<MkPage(1, <<TransactionsBlock>>, <<>>, 0)>>

\* C1 as stated: parsing the three lines "1. The firm had the following
\* transactions:", "a) Invested $1,000.", "b) Explain why revenue was recognized."
\* emits exactly one Question, with id "b)".
C1_OnlyQuestionB ==
    (pages = TransactionsDocument /\ Parsed)
        => (Len(questions) = 1 /\ questions[1].id = "b)")

\* C1 amended: parsing those three lines emits exactly two Questions, in this order:
\* id "1." with the numeric line as its text, and id "b)" with the third line as its
\* text; only the item "a)" is discarded.
C1_QuestionsOneAndB ==
    (pages = TransactionsDocument /\ Parsed)
        => /\ Len(questions) = 2
           /\ questions[1].id = "1."
           /\ questions[1].text = "1. The firm had the following transactions:"
           /\ questions[2].id = "b)"
           /\ questions[2].text = "b) Explain why revenue was recognized."

C1_Witness ==
    /\ pages = TransactionsDocument
    /\ pc = "enhance"
    /\ lines = <<"1. The firm had the following transactions:",
                 "a) Invested $1,000.",
                 "b) Explain why revenue was recognized.">>

\* C2: in every state, every emitted Question has a full text (all its merged lines)
\* that the Question-Text Classifier classifies as a question.
C2_EmittedAreQuestions ==
    \A q \in 1..Len(questions) : IsActualQuestion(questions[q].text)

\* A Question of several merged lines, a roman sub-item among them, has been emitted.
C2_Witness ==
    /\ pc = "done"
    /\ \E q \in 1..Len(questions) :
          /\ Contains(questions[q].text, "\nii) bonus shares")
          /\ IsActualQuestion(questions[q].text)

\* The reference parser of C3 on the non-blank trimmed lines L.
RefLines ==
    LET all == SplitLines(full_text)
    IN SelectSeq([k \in 1..Len(all) |-> Strip(all[k])], LAMBDA l : l # "")

\* Line k of L starts an item: it carries a marker and is not merged as a sub-item
\* (a sub-item line is merged exactly when an earlier line carries a marker).
RefStarts(L, k) ==
    LET m == MatchQuestionPattern(L[k])
    IN /\ m.matched
       /\ ~(IsSubItem(m.id, L[k])
            /\ \E j \in 1..(k - 1) : MatchQuestionPattern(L[j]).matched)

\* The last line of the item that starts at line k
RefEnd(L, k) ==
    LET later == {j \in (k + 1)..Len(L) : RefStarts(L, j)}
    IN IF later = {} THEN Len(L)
       ELSE (CHOOSE j \in later : \A i \in later : j <= i) - 1

RECURSIVE RefQuestions(_, _)
RefQuestions(L, k) ==
    IF k > Len(L) THEN <<>>
    ELSE LET item == Join("\n", SubSeq(L, k, RefEnd(L, k)))
         IN (IF RefStarts(L, k) /\ IsActualQuestion(item)
             THEN <<[id |-> MatchQuestionPattern(L[k]).id, text |-> item]>>
             ELSE <<>>)
            \o RefQuestions(L, k + 1)

\* C3: once the parser has run, its output is the reference's: the items whose joined
\* text is classified true, in document order, each with the marker of its first line
\* as id and its joined lines as text, the item open at the end of input included.
C3_ParserIsReference ==
    Parsed =>
        [q \in 1..Len(questions) |-> [id |-> questions[q].id, text |-> questions[q].text]]
            = RefQuestions(RefLines, 1)

\* The parser has closed an item at the end of the input and emitted it, after
\* discarding an earlier one.
C3_Witness ==
    /\ pc = "enhance"
    /\ Len(questions) >= 1
    /\ questions[Len(questions)].text = Join("\n", current_text)
    /\ Cardinality({k \in 1..Len(RefLines) : RefStarts(RefLines, k)}) > Len(questions)

\* The first word the Question-Text Classifier inspects in text
FirstContentWord(text) == FirstWordLower(StripPrefix(text, AlphaNum))

\* The item texts of C4: a marker of one of the seven kinds, then a first word of the
\* interrogative or imperative vocabulary, then any continuation
MarkedVocabularyTexts ==
    { Strip(m \o w \o t) : m \in Markers, w \in VocabularyWords, t \in Tails }

\* The same, for the markers the prefix removal covers: numeric, lettered and roman
DottedVocabularyTexts ==
    { Strip(m \o w \o t) : m \in NumericMarkers \cup LetterMarkers \cup RomanMarkers,
                           w \in VocabularyWords, t \in Tails }

\* C4: every item text made of a recognized marker followed by content whose first
\* word is an interrogative or imperative vocabulary word is classified a question,
\* whatever its length and also without a '?'.
C4_MarkedVocabularyIsQuestion ==
    (verdict.op = "is_actual_question" /\ input \in MarkedVocabularyTexts)
        => verdict.result = TRUE

\* For the numeric, lettered and roman markers, which the classifier's prefix removal
\* covers, the statement of C4 holds.
C4_DottedMarkersStripped ==
    (verdict.op = "is_actual_question" /\ input \in DottedVocabularyTexts)
        => verdict.result = TRUE

\* C5: every text that contains a '?' is classified a question.
C5_QuestionMarkDecides ==
    (verdict.op = "is_actual_question" /\ Contains(input, "?"))
        => verdict.result = TRUE

\* The classifier has answered for a text with a '?' whose first word is a transaction
\* verb, with a '$' in its first 50 characters, of 100 characters or more.
C5_Witness ==
    /\ verdict.op = "is_actual_question"
    /\ Contains(input, "?")
    /\ FirstContentWord(input) \in TransactionIndicators
    /\ Contains(Prefix(input, DollarWindow), "$")
    /\ Len(input) >= ShortItemLen
    /\ verdict.result = TRUE

\* The lines of C6, each with the marker it starts with: 'Question <N>', 'Problem <N>'
\* or 'Exercise <N>' in any letter case, or one letter, '.' or ')' and whitespace.
MarkedLines ==
    { <<Strip(m \o w \o t), Strip(m)>> :
          m \in KeywordMarkers, w \in FirstWords, t \in ShortTails }
    \cup { <<Strip("question 15: " \o w \o t), "question 15">> :
          w \in FirstWords, t \in ShortTails }
    \cup { <<m \o w \o t, Strip(m)>> :
          m \in LetterMarkers, w \in FirstWords \ {""}, t \in ShortTails }

MarkerIds == { l[2] : l \in MarkedLines }

\* C6: for every such line the Line Classifier reports an item-start and returns as id
\* exactly the marker the line starts with, trimmed.
C6_MarkerIsId ==
    verdict.op = "match_question_pattern" =>
        \A id \in MarkerIds :
            <<input, id>> \in MarkedLines
                => (verdict.result.matched /\ verdict.result.id = id)

\* The Line Classifier has answered for an upper-case keyword line.
C6_Witness ==
    /\ verdict.op = "match_question_pattern"
    /\ <<input, "QUESTION  7">> \in MarkedLines
    /\ verdict.result.id = "QUESTION  7"

\* The three ways of C7 in which a block is a scenario-start
HasIndicatorPhrase(text) == \E phrase \in ScenarioIndicators : Contains(Lower(text), phrase)
NumberedNonQuestion(text) == MatchRunMarker(text, Digits) > 0 /\ ~IsActualQuestion(text)
LongNonQuestion(text) ==
    Len(text) > LongBlockLen /\ ~IsQuestionStart(text) /\ ~IsActualQuestion(text)

\* C7: a block is accepted as a scenario-start if and only if it contains an indicator
\* phrase, or is a numbered item that is not a question, or is longer than 200
\* characters, not an item-start and not a question.
C7_ScenarioStartRules ==
    verdict.op = "is_scenario_block" =>
        (verdict.result <=> (\/ HasIndicatorPhrase(input)
                             \/ NumberedNonQuestion(input)
                             \/ LongNonQuestion(input)))

\* A block accepted by the length rule alone, and the verdict given on it.
C7_Witness ==
    /\ verdict.op = "is_scenario_block"
    /\ verdict.result = TRUE
    /\ LongNonQuestion(input)
    /\ ~HasIndicatorPhrase(input)
    /\ ~NumberedNonQuestion(input)

\* The document is one page holding the single block b
SingleBlock(b) == pages = <<MkPage(1, <<b>>, <<>>, 0)>>

\* The blocks of C8: 250 characters, no '?', first word not an imperative verb
ExampleBlocks ==
    { b \in BlockCatalogue :
        /\ Len(b) = ExampleLen
        /\ ~Contains(b, "?")
        /\ FirstContentWord(b) \notin ImperativeWords
        /\ FirstWordLower(b) \notin ImperativeWords }

\* C8 as stated: on a document whose block is 250 characters long, has no '?' and
\* does not start with an imperative verb, the Scenario Detector produces exactly one
\* Scenario, whose text includes the block.
C8_LongBlockIsScenario ==
    \A b \in ExampleBlocks :
        (SingleBlock(b) /\ Detected)
            => (Len(scenarios) = 1 /\ Contains(scenarios[1].text, b))

\* C8 amended: the same for a block whose first word, as the Question-Text Classifier
\* reads it, is neither an imperative nor an interrogative word, and that carries no
\* marker or a numeric one; the one Scenario is the block itself.
C8_LongPlainBlockIsScenario ==
    \A b \in ExampleBlocks :
        (/\ SingleBlock(b)
         /\ Detected
         /\ FirstContentWord(b) \notin InterrogativeWords
         /\ (~IsQuestionStart(b) \/ MatchQuestionPattern(b).kind = 1))
            => scenarios = <<[text |-> b, page |-> 1, block_num |-> 0]>>

\* The detector has run on the unmarked 250-character block and found its Scenario.
C8_Witness ==
    /\ SingleBlock(PadTo("The company", ExampleLen))
    /\ pc = "parse"
    /\ Len(scenarios) = 1

\* The document has a table (an image) on some page
HasTables == \E p \in 1..Len(pages) : pages[p].tables # <<>>
HasImages == \E p \in 1..Len(pages) : pages[p].images # <<>>

LastTableText ==
    LET last == CHOOSE p \in 1..Len(pages) :
                    /\ pages[p].tables # <<>>
                    /\ \A r \in (p + 1)..Len(pages) : pages[r].tables = <<>>
    IN FormatTableAsText(pages[last].tables[Len(pages[last].tables)].data)

\* C10: every question chunk's text is its sections joined by blank lines in the
\* order scenario, table, question; the question section is always there and last.
C10_SectionOrder ==
    pc = "done" =>
        /\ Len(chunks) >= Len(questions)
        /\ \A q \in 1..Len(questions) :
              LET scenario_section ==
                      IF questions[q].has_scenario /\ scenarios # <<>>
                      THEN <<"Context/Scenario:\n" \o scenarios[Len(scenarios)].text>>
                      ELSE <<>>
                  table_section ==
                      IF questions[q].has_table /\ HasTables /\ LastTableText # ""
                      THEN <<"Table:\n" \o LastTableText>>
                      ELSE <<>>
                  question_section == <<"Question: " \o questions[q].text>>
              IN chunks[q].text =
                     Join("\n\n", scenario_section \o table_section \o question_section)

\* A question chunk with all three sections has been built.
C10_Witness ==
    /\ pc = "done"
    /\ \E q \in 1..Len(questions) :
          /\ questions[q].has_scenario /\ questions[q].has_table
          /\ SubSeq(chunks[q].text, 1, Len("Context/Scenario:\n")) = "Context/Scenario:\n"
          /\ Contains(chunks[q].text, "\n\nTable:\n")
          /\ Contains(chunks[q].text, "\n\nQuestion: ")

\* The headers that open the sections of a chunk's text
SectionHeaders == {"Context/Scenario:\n", "Table:\n", "Question: ", "Context/Background:\n"}

\* The content that starts at position p of text: what stands before the next blank
\* line that separates sections, or before the end of text
ContentAt(text, p) ==
    LET ends == {e \in p..(Len(text) - 1) : SubSeq(text, e, e + 1) = "\n\n"}
    IN IF ends = {} THEN SubSeq(text, p, Len(text))
       ELSE SubSeq(text, p, (CHOOSE e \in ends : \A f \in ends : e <= f) - 1)

\* text has the header at position p, and nothing but whitespace as its content
EmptySectionAt(text, header, p) ==
    /\ p + Len(header) - 1 <= Len(text)
    /\ SubSeq(text, p, p + Len(header) - 1) = header
    /\ Strip(ContentAt(text, p + Len(header))) = ""

\* C11: no chunk contains a section header followed by empty content, for every
\* document, tables whose cells are all blank included.
C11_NoEmptySection ==
    pc = "done" =>
        \A c \in 1..Len(chunks) : \A header \in SectionHeaders :
            \A p \in 1..Len(chunks[c].text) : ~EmptySectionAt(chunks[c].text, header, p)

\* The part of C11 the guards "if scenario_text" and "if table_text" do ensure: a
\* table that formats to the empty string, or to separators between blank cells on
\* one row, leaves no header directly before a blank line; only a table that formats
\* to blank lines does.
C11_EmptyOnlyForBlankRows ==
    pc = "done" =>
        \A c \in 1..Len(chunks) :
            (\E header \in SectionHeaders : \E p \in 1..Len(chunks[c].text) :
                 EmptySectionAt(chunks[c].text, header, p))
                => (/\ chunks[c].metadata.type = "question"
                    /\ chunks[c].metadata.has_table
                    /\ HasTables
                    /\ LastTableText # ""
                    /\ Strip(LastTableText) = ""
                    /\ Contains(chunks[c].text, "Table:\n" \o LastTableText \o "\n\n"))

\* The data of the last table of the document: the last one of the last page with one
LastTable ==
    LET last == CHOOSE p \in 1..Len(pages) :
                    /\ pages[p].tables # <<>>
                    /\ \A r \in (p + 1)..Len(pages) : pages[r].tables = <<>>
    IN pages[last].tables[Len(pages[last].tables)].data

\* A table as C12 words it: the cells of a row joined by " | ", a blank cell as the
\* empty string, the rows joined by newlines
RECURSIVE Rendered(_)
Rendered(data) ==
    LET Cell(c) == IF c = <<>> THEN "" ELSE c[1]
        RECURSIVE Row(_)
        Row(r) == IF Len(r) = 1 THEN Cell(r[1]) ELSE Cell(r[1]) \o " | " \o Row(Tail(r))
    IN IF Len(data) = 1 THEN Row(data[1])
       ELSE Row(data[1]) \o "\n" \o Rendered(Tail(data))

\* The positions of text at which sub occurs
Occurrences(text, sub) ==
    {p \in 1..(Len(text) - Len(sub) + 1) : SubSeq(text, p, p + Len(sub) - 1) = sub}

\* text[-n:] = suffix
EndsWith(text, suffix) ==
    /\ Len(suffix) <= Len(text)
    /\ SubSeq(text, Len(text) - Len(suffix) + 1, Len(text)) = suffix

\* C12 as stated: for every question flagged has_table in a document with a table, the
\* question chunk has a 'Table:\n' section whose content is the last table of the
\* document, rendered; no other table appears in any chunk.
C12_FlaggedChunkHasLastTable ==
    pc = "done" =>
        /\ \A q \in 1..Len(questions) :
              (questions[q].has_table /\ HasTables)
                  => EndsWith(chunks[q].text,
                              "Table:\n" \o Rendered(LastTable) \o "\n\nQuestion: "
                                  \o questions[q].text)
        /\ \A c \in 1..Len(chunks) :
              /\ Cardinality(Occurrences(chunks[c].text, "Table:\n")) <= 1
              /\ Occurrences(chunks[c].text, "Table:\n") # {}
                    => Contains(chunks[c].text, "Table:\n" \o Rendered(LastTable) \o "\n\n")

\* C12 amended: the same when the last table does not render to the empty string; when
\* it does (one row with one blank cell), the chunk of a flagged question has no
\* 'Table:\n' section at all.
C12_FlaggedChunkHasLastTableUnlessEmpty ==
    pc = "done" =>
        /\ \A q \in 1..Len(questions) :
              (questions[q].has_table /\ HasTables)
                  => IF Rendered(LastTable) # ""
                     THEN EndsWith(chunks[q].text,
                                   "Table:\n" \o Rendered(LastTable) \o "\n\nQuestion: "
                                       \o questions[q].text)
                     ELSE Occurrences(chunks[q].text, "Table:\n") = {}
        /\ \A c \in 1..Len(chunks) :
              /\ Cardinality(Occurrences(chunks[c].text, "Table:\n")) <= 1
              /\ Occurrences(chunks[c].text, "Table:\n") # {}
                    => Contains(chunks[c].text, "Table:\n" \o Rendered(LastTable) \o "\n\n")

\* The chunk of a flagged question of a document with two tables, both
\* on a page that is not the last, shows the last one, rendered with its blank cells.
C12_Witness ==
    /\ pc = "done"
    /\ Len(pages) = 2
    /\ pages[2].tables = <<>>
    /\ Len(AllTables(pages)) = 2
    /\ LastTable = BlankTable
    /\ \E q \in 1..Len(questions) :
          /\ questions[q].has_table
          /\ Contains(chunks[q].text, "Table:\n | \n\nQuestion: ")
          /\ ~Contains(chunks[q].text, "Item")

\* text[:n] = prefix
StartsWith(text, prefix) ==
    /\ Len(prefix) <= Len(text)
    /\ SubSeq(text, 1, Len(prefix)) = prefix

StandaloneChunk(scenario) ==
    [text |-> "Context/Background:\n" \o scenario.text,
     metadata |-> [type |-> "scenario", page |-> scenario.page]]

\* The chunks of the questions: the first Len(questions) chunks
QuestionChunks == SubSeq(chunks, 1, Len(questions))
ScenarioChunks == SubSeq(chunks, Len(questions) + 1, Len(chunks))

\* The scenario's full text is a substring of the text of some question chunk
InQuestionChunk(scenario) ==
    \E q \in 1..Len(QuestionChunks) : Contains(QuestionChunks[q].text, scenario.text)

\* C14: no standalone scenario chunk is emitted for a Scenario whose full text is a
\* substring of the text of some question chunk of the document.
C14_AttachedScenarioNotRepeated ==
    pc = "done" =>
        \A s \in 1..Len(scenarios) :
            InQuestionChunk(scenarios[s])
                => \A c \in 1..Len(chunks) : chunks[c] # StandaloneChunk(scenarios[s])

\* Of two Scenarios, the one carried by a question chunk has no chunk of its own and
\* the other one has.
C14_Witness ==
    /\ pc = "done"
    /\ Len(scenarios) = 2
    /\ InQuestionChunk(scenarios[2])
    /\ ~InQuestionChunk(scenarios[1])
    /\ ScenarioChunks = <<StandaloneChunk(scenarios[1])>>

\* The metadata C15 gives the chunk of a Question
QuestionMetadata(question) ==
    [type |-> "question",
     question_id |-> question.id,
     has_scenario |-> question.has_scenario,
     has_table |-> question.has_table,
     has_image |-> question.has_image,
     question_only |-> question.text]

\* list is made of the standalone chunks of some of the Scenarios, in detection order
InDetectionOrder(list) ==
    \E f \in [1..Len(list) -> 1..Len(scenarios)] :
        /\ \A i \in 1..Len(list) : list[i] = StandaloneChunk(scenarios[f[i]])
        /\ \A i, j \in 1..Len(list) : i < j => f[i] < f[j]

\* C15: the chunk list is one question chunk per emitted Question, in parse order, the
\* i-th with type 'question', the i-th Question's id, flags and raw text; then the
\* standalone scenario chunks in detection order, each with type 'scenario' and the
\* Scenario's page. No scenario chunk precedes a question chunk.
C15_QuestionsThenScenarios ==
    pc = "done" =>
        /\ Len(chunks) >= Len(questions)
        /\ \A q \in 1..Len(questions) : chunks[q].metadata = QuestionMetadata(questions[q])
        /\ InDetectionOrder(ScenarioChunks)
        /\ \A c, d \in 1..Len(chunks) :
              (chunks[c].metadata.type = "scenario" /\ chunks[d].metadata.type = "question")
                  => d < c

\* Two question chunks are followed by the chunks of two of three Scenarios.
C15_Witness ==
    /\ pc = "done"
    /\ Len(questions) = 2
    /\ Len(scenarios) = 3
    /\ Len(chunks) = 4
    /\ chunks[1].metadata.question_id = questions[1].id
    /\ chunks[2].metadata.question_id = questions[2].id
    /\ questions[1].id # questions[2].id
    /\ chunks[3] = StandaloneChunk(scenarios[1])
    /\ chunks[4] = StandaloneChunk(scenarios[2])
    /\ chunks[3] # chunks[4]

\* C16: a second run of scenario detection, question parsing, enhancement and chunk
\* synthesis on the same blocks, tables and images, and a second call of the Chunk
\* Synthesizer on the processed document, return the Scenario, Question and chunk
\* lists the first run returned.
C16_SecondRunReturnsTheSame ==
    (pc = "done" /\ first # <<>>) => Returned = first[1]

\* A second full run has gone through a document that left an item open at the end
\* of the first run, and has returned a Scenario, two Questions and chunks.
C16_Witness ==
    /\ pc = "done"
    /\ first # <<>>
    /\ idx > 1
    /\ current_question # <<>>
    /\ Len(first[1].questions) = 2
    /\ Len(first[1].scenarios) >= 1
    /\ Len(chunks) > Len(questions)

\* The document has no page, or no page of it has a text block
NoTextBlocks == \A p \in 1..Len(pages) : pages[p].blocks = <<>>

\* C17: on a document with no pages, or whose pages all have zero text blocks, with or
\* without tables and images, the pipeline runs to its end (a step is possible in
\* every state before the end) and the Scenario, Question and chunk lists are empty.
C17_EmptyDocumentEmptyLists ==
    NoTextBlocks =>
        /\ scenarios = <<>>
        /\ questions = <<>>
        /\ chunks = <<>>
        /\ current_question = <<>>
        /\ pc # "done" => ENABLED Next

\* The pipeline has finished on a document of two pages without text, one of them
\* with a table and an image.
C17_Witness ==
    /\ pc = "done"
    /\ Len(pages) = 2
    /\ NoTextBlocks
    /\ HasTables /\ HasImages
    /\ lines = <<"", "", "">>
    /\ chunks = <<>>

\* The roman-numeral pattern is the last of question_patterns
RomanPattern == 7

\* The line the for loop of _parse_questions is about to process
AtLine == pc = "lines" /\ idx <= Len(lines)
CurrentLine == Strip(lines[idx])

\* The step merges the line into the open item
Merged ==
    /\ current_text' = Append(current_text, CurrentLine)
    /\ UNCHANGED <<current_question, questions>>

\* The step closes the open item, emitting it or discarding it, and opens a new item
\* on the line
ClosesAndOpens ==
    /\ current_question' = <<NewQuestion(MatchQuestionPattern(CurrentLine).id, CurrentLine)>>
    /\ current_text' = <<CurrentLine>>
    /\ \/ questions' = questions
       \/ questions' = Append(questions, [current_question[1] EXCEPT
                                            !.text = Join("\n", current_text)])

\* The first word of the line after its roman marker, lowercased
WordAfterRoman(line) ==
    FirstWordLower(SubSeq(line, PatternMatch(RomanPattern, line) + 1, Len(line)))

\* A line under 100 characters that the roman pattern matched arrives at an open item
RomanLineAtOpenItem ==
    /\ AtLine
    /\ current_question # <<>>
    /\ MatchQuestionPattern(CurrentLine).kind = RomanPattern
    /\ Len(CurrentLine) < SubItemMaxLen

\* C18: while an item is open, a roman-numeral-marked line shorter than 100 characters
\* is merged into the open item if and only if its first content word is none of the
\* 7 interrogatives and 20 imperative verbs of the Question-Text Classifier; otherwise
\* the line closes the open item and opens a new one.
C18_RomanLineMergedUnlessVocabulary ==
    [][RomanLineAtOpenItem =>
          IF WordAfterRoman(CurrentLine) \notin InterrogativeWords \cup ImperativeWords
          THEN Merged
          ELSE ClosesAndOpens /\ ~Merged]_vars

\* What the parser does instead: the same with the 10 imperative verbs of _is_sub_item
\* in place of the 20 of the Question-Text Classifier.
C18_RomanLineMergedUnlessShortList ==
    [][RomanLineAtOpenItem =>
          IF WordAfterRoman(CurrentLine) \notin InterrogativeWords \cup SubItemImperativeWords
          THEN Merged
          ELSE ClosesAndOpens /\ ~Merged]_vars

\* The lettered patterns are the second and third of question_patterns
LetterPatterns == {2, 3}

\* line starts with one of the letters i, v, x (either case), '.' or ')', whitespace
IVXLine(line) ==
    /\ Len(line) >= 3
    /\ Char(line, 1) \in RomanChars
    /\ Char(line, 2) \in DotParen
    /\ Char(line, 3) \in Whitespace

\* The first word of the line after its one-letter marker, lowercased
WordAfterLetter(line) == FirstWordLower(SubSeq(line, 3, Len(line)))

\* Such a line arrives at an open item
IVXLineAtOpenItem ==
    /\ AtLine
    /\ current_question # <<>>
    /\ IVXLine(CurrentLine)

\* C19 as stated: a line whose marker is the single letter i, v or x is a lettered
\* match and, arriving while an item is open, is never merged as a sub-item: it closes
\* the open item and opens a new one.
C19_SingleLetterNeverSubItem ==
    [][IVXLineAtOpenItem =>
          /\ MatchQuestionPattern(CurrentLine).kind \in LetterPatterns
          /\ ClosesAndOpens /\ ~Merged]_vars

\* C19 amended: such a line is a lettered match, but the sub-item test reads the
\* marker, not the pattern: when the line is shorter than 100 characters and its first
\* content word is none of the 7 interrogatives and 10 imperative verbs of
\* _is_sub_item, it is merged into the open item; otherwise it closes the open item
\* and opens a new one.
C19_SingleLetterMergedByMarker ==
    [][IVXLineAtOpenItem =>
          /\ MatchQuestionPattern(CurrentLine).kind \in LetterPatterns
          /\ IF /\ Len(CurrentLine) < SubItemMaxLen
                /\ WordAfterLetter(CurrentLine)
                       \notin InterrogativeWords \cup SubItemImperativeWords
             THEN Merged
             ELSE ClosesAndOpens /\ ~Merged]_vars

\* The line "v) retained earnings" has just been merged into the item open before it.
C19_Witness ==
    /\ pc = "lines"
    /\ idx > 2
    /\ Strip(lines[idx - 1]) = RetainedBlock
    /\ IVXLine(RetainedBlock)
    /\ MatchQuestionPattern(RetainedBlock).kind \in LetterPatterns
    /\ Len(current_text) = 2
    /\ current_text[2] = RetainedBlock
    /\ current_question[1].full_line = current_text[1]
    /\ current_question[1].id # "v)"

\* The lines the for loop has gone through so far hold no marker
NoMarkerSoFar ==
    \A k \in 1..(idx - 1) : ~MatchQuestionPattern(Strip(lines[k])).matched

\* The first line of L that carries a marker, Len(L) + 1 if there is none
FirstMarked(L) ==
    LET marked == {k \in 1..Len(L) : MatchQuestionPattern(L[k]).matched}
    IN IF marked = {} THEN Len(L) + 1
       ELSE CHOOSE k \in marked : \A j \in marked : k <= j

\* text is made of lines of L from the first marked one on, and of no line before it
FromFirstMarkedOn(L, text) ==
    \E k \in FirstMarked(L)..Len(L) : \E e \in k..Len(L) :
        text = Join("\n", SubSeq(L, k, e))

\* C20: a line that matches no marker pattern and arrives while no item is open is
\* ignored; no line that precedes the first item-start line is part of the open item
\* or of the text of an emitted Question; and a roman-numeral line that arrives with
\* no item open is not dropped as a sub-item but opens a new item.
C20_LinesBeforeFirstItemIgnored ==
    /\ []((pc = "lines" /\ NoMarkerSoFar)
             => (current_question = <<>> /\ current_text = <<>> /\ questions = <<>>))
    /\ [](Parsed => \A q \in 1..Len(questions) :
                        FromFirstMarkedOn(RefLines, questions[q].text))
    /\ [][(AtLine /\ current_question = <<>>) =>
             /\ ~MatchQuestionPattern(CurrentLine).matched
                   => UNCHANGED <<current_question, current_text, questions>>
             /\ MatchQuestionPattern(CurrentLine).kind = RomanPattern
                   => /\ current_question' =
                             <<NewQuestion(MatchQuestionPattern(CurrentLine).id,
                                           CurrentLine)>>
                      /\ current_text' = <<CurrentLine>>
                      /\ questions' = questions]_vars

\* After two unmarked lines, a roman-numeral line short enough for a sub-item found no
\* item open, opened one, and was emitted as a Question without the lines before it.
C20_Witness ==
    /\ pc = "enhance"
    /\ RefLines = <<"Notes:", "see the ledger", "ii) bonus shares">>
    /\ IsSubItem("ii)", "ii) bonus shares")
    /\ Len(questions) = 1
    /\ questions[1].id = "ii)"
    /\ questions[1].text = "ii) bonus shares"

\* The first content word of an item text: the first word after the marker the Line
\* Classifier finds in it; without a marker, the first word as the classifier reads it
ContentWord(text) ==
    LET m == MatchQuestionPattern(text)
    IN IF m.matched
       THEN FirstWordLower(SubSeq(text, PatternMatch(m.kind, text) + 1, Len(text)))
       ELSE FirstContentWord(text)

\* C21: for every text with no '?' whose first content word is neither an
\* interrogative nor an imperative verb, if that word is one of the 14 transaction
\* verbs, or a '$' occurs within the first 50 characters, the Question-Text Classifier
\* returns false, also for a text shorter than 100 characters.
C21_TransactionTextIsNoQuestion ==
    (/\ verdict.op = "is_actual_question"
     /\ ~Contains(input, "?")
     /\ ContentWord(input) \notin InterrogativeWords \cup ImperativeWords
     /\ \/ ContentWord(input) \in TransactionIndicators
        \/ \E i \in 1..DollarWindow : i <= Len(input) /\ Char(input, i) = "$")
        => verdict.result = FALSE

\* The classifier has answered false for a text under 100 characters that starts,
\* after a keyword marker, with a transaction verb and has no '$'.
C21_Witness ==
    /\ verdict.op = "is_actual_question"
    /\ verdict.result = FALSE
    /\ Len(input) < ShortItemLen
    /\ ~Contains(input, "?")
    /\ ~Contains(input, "$")
    /\ MatchQuestionPattern(input).kind = 4
    /\ ContentWord(input) = "purchased"

\* None of rules 1-5 of the Question-Text Classifier applies to text
NoRuleOneToFive(text) ==
    /\ ~Contains(text, "?")
    /\ ContentWord(text) \notin InterrogativeWords \cup ImperativeWords
    /\ ContentWord(text) \notin TransactionIndicators
    /\ ~Contains(Prefix(text, DollarWindow), "$")

\* One of the transaction verbs occurs somewhere in text, in any letter case, as a word
\* or inside one ("unpaid")
TransactionVerbOccurs(text) ==
    \E w \in TransactionIndicators : Occurrences(Lower(text), w) # {}

C22_ShortQuestionReached ==
    /\ verdict.op = "is_actual_question"
    /\ verdict.result = TRUE
    /\ NoRuleOneToFive(input)

\* _identify_scenarios has just returned; no later step changes pages or scenarios
JustDetected == pc = "parse"

\* The texts of blocks i..(i + n - 1) of page p
BlockTexts(p, i, n) == [k \in 1..n |-> pages[p].blocks[i + k - 1].text]

\* scenario is the window of n blocks that starts at block i of page p
IsWindow(scenario, p, i, n) ==
    LET blocks == pages[p].blocks
    IN /\ i + n - 1 <= Len(blocks)
       /\ scenario.page = pages[p].page_number
       /\ scenario.block_num = blocks[i].block_num
       /\ scenario.text = Join("\n\n", BlockTexts(p, i, n))
       /\ \A k \in (i + 1)..(i + n - 1) : ~IsQuestionStart(blocks[k].text)
       /\ n < ScenarioWindow
             => (i + n > Len(blocks) \/ IsQuestionStart(blocks[i + n].text))

\* C23: every Scenario's text is the blank-line join of 1 to 3 consecutive blocks of
\* one page, from its start block i on through i+1 and i+2; absorption stops at the
\* first item-start block or at the end of the page, no absorbed block is an
\* item-start, and no Scenario spans two pages.
C23_ScenarioIsWindow ==
    JustDetected =>
        \A s \in 1..Len(scenarios) :
            \E p \in 1..Len(pages) : \E i \in 1..Len(pages[p].blocks) :
                \E n \in 1..ScenarioWindow : IsWindow(scenarios[s], p, i, n)

\* The first Scenario of a page of four blocks holds the first three, and the fourth
\* block, no item-start, is left out.
C23_Witness ==
    /\ pc = "parse"
    /\ Len(pages) = 1
    /\ Len(pages[1].blocks) = 4
    /\ ~IsQuestionStart(pages[1].blocks[4].text)
    /\ Len(scenarios) >= 1
    /\ IsWindow(scenarios[1], 1, 1, 3)
    /\ ~Contains(scenarios[1].text, NotesBlock)
    /\ pages[1].blocks[4].text = NotesBlock

\* The scenario-start blocks of the pages from p on, as <<page, block_num>>, page by
\* page and block by block
RECURSIVE StartBlocks(_)
StartBlocks(p) ==
    IF p > Len(pages) THEN <<>>
    ELSE LET starts == SelectSeq(pages[p].blocks, LAMBDA b : IsScenarioBlock(b.text))
         IN [k \in 1..Len(starts) |-> <<pages[p].page_number, starts[k].block_num>>]
            \o StartBlocks(p + 1)

\* C24: the Scenario Detector emits exactly one Scenario per scenario-start block, a
\* start block that an earlier Scenario absorbed included, and the Scenario list is in
\* page-major, then block-major order of the start blocks.
C24_OneScenarioPerStart ==
    JustDetected =>
        [s \in 1..Len(scenarios) |-> <<scenarios[s].page, scenarios[s].block_num>>]
            = StartBlocks(1)

\* The second block of a page was absorbed by the Scenario of the first block and has
\* a Scenario of its own, next in the list.
C24_Witness ==
    /\ pc = "parse"
    /\ Len(scenarios) >= 2
    /\ scenarios[1].page = scenarios[2].page
    /\ scenarios[1].block_num = 0
    /\ scenarios[2].block_num = 1
    /\ StartsWith(scenarios[1].text,
                  pages[1].blocks[1].text \o "\n\n" \o pages[1].blocks[2].text)
    /\ StartsWith(scenarios[2].text, pages[1].blocks[2].text)

\* C25: every Scenario whose text is not a substring of the text of any question chunk
\* has its own standalone chunk, 'Context/Background:\n' and its text; in a document
\* with no Questions there are as many standalone scenario chunks as Scenarios, also
\* when Scenario windows overlap or two Scenarios have equal text.
C25_EveryFreeScenarioHasChunk ==
    pc = "done" =>
        /\ \A s \in 1..Len(scenarios) :
              ~InQuestionChunk(scenarios[s])
                  => \E c \in 1..Len(ScenarioChunks) :
                         ScenarioChunks[c] = StandaloneChunk(scenarios[s])
        /\ questions = <<>> => Len(ScenarioChunks) = Len(scenarios)

\* What the scenario loop ensures instead: the text of every Scenario is in the text of
\* some chunk, its own or one that was emitted before it.
C25_EveryScenarioInSomeChunk ==
    pc = "done" =>
        \A s \in 1..Len(scenarios) :
            \E c \in 1..Len(chunks) : Contains(chunks[c].text, scenarios[s].text)

\* The first line of a block, as the parser reads it
OpeningLine(text) == Strip(SplitLines(text)[1])

\* The texts of all blocks of the document
AllBlockTexts ==
    UNION { { pages[p].blocks[b].text : b \in 1..Len(pages[p].blocks) } :
            p \in 1..Len(pages) }

\* C26: no block that the Scenario Detector accepts as a scenario-start through the
\* numeric-marker rule (a numbered item classified as not a question) supplies the
\* opening line of a Question the parser emits.
C26_NumberedScenarioOpensNoQuestion ==
    Parsed =>
        \A text \in AllBlockTexts :
            NumberedNonQuestion(text)
                => \A q \in 1..Len(questions) :
                       questions[q].full_line # OpeningLine(text)

\* What does hold: no emitted Question has the whole of such a block as its text.
C26_NumberedScenarioIsNoQuestion ==
    Parsed =>
        \A text \in AllBlockTexts :
            NumberedNonQuestion(text)
                => \A q \in 1..Len(questions) : questions[q].text # text

\* The for loop of _parse_questions is running, or has just ended, with an item open
InItem == pc = "lines" /\ current_question # <<>>

\* The step closes the open item: it is classified, and emitted or discarded
Closes == questions' = SaveQuestion(questions, current_question, current_text)

\* C27: once an item is open the parser never goes back to having none open while it
\* reads lines; every later non-blank line becomes the last accumulated line of an
\* item, the open one or the new one it opens; an item is closed, through the
\* classifier, only by the line that opens the next one or at the end of the input,
\* where the item still open is classified as well.
C27_InItemIsAbsorbing ==
    [][InItem =>
          /\ pc' = "lines" => current_question' # <<>>
          /\ (AtLine /\ CurrentLine # "")
                 => /\ Merged \/ (ClosesAndOpens /\ Closes)
                    /\ current_text'[Len(current_text')] = CurrentLine
          /\ (AtLine /\ CurrentLine = "")
                 => UNCHANGED <<current_question, current_text, questions>>
          /\ ~AtLine => Closes /\ pc' = "enhance"
          /\ current_question' # current_question => AtLine /\ ClosesAndOpens]_vars

\* An item is open behind a blank line and an appended line, after an earlier item was
\* closed by the line that opened this one.
C27_Witness ==
    /\ pc = "lines"
    /\ idx > 1
    /\ current_question # <<>>
    /\ Len(current_text) >= 2
    /\ current_text[Len(current_text)] = Strip(lines[idx - 1])
    /\ \E k \in 1..(idx - 1) :
          /\ Strip(lines[k]) = ""
          /\ \E j \in 1..(k - 1) : MatchQuestionPattern(Strip(lines[j])).matched
    /\ \E j \in 1..(idx - 1) :
          /\ MatchQuestionPattern(Strip(lines[j])).matched
          /\ Strip(lines[j]) # current_question[1].full_line
          /\ \A i \in 1..(j - 1) : ~MatchQuestionPattern(Strip(lines[i])).matched

\* The last Scenario detected
LastScenario == scenarios[Len(scenarios)]

InLoop == pc = "while" /\ start < Len(content)

\* No sentence ending lies in the 200 characters around the target end of the chunk
\* that starts at start, or the text ends before that target end
NoSentenceBreak ==
    \/ start + chunk_size >= Len(content)
    \/ \A e \in SentenceEndings :
          ~Contains(Slice(content, start + chunk_size - SentenceWindow,
                          start + chunk_size + SentenceWindow), e)

\* Every iteration moves start forward by at least 703 characters, and by 800 when no
\* sentence break is found
EveryIterationAdvances ==
    [][InLoop => /\ start' - start >= 703
                 /\ NoSentenceBreak => start' - start = 800]_vars

\* A text no longer than chunk_size is returned as a single chunk, the text itself
ShortTextIsOneChunk ==
    [](pc = "returned" /\ Len(content) <= chunk_size => chunks = <<content>>)

\* C29: with chunk_size 1000 and chunk_overlap 200, chunk_text terminates on every
\* text: each iteration of its loop moves the start position forward by at least 703
\* characters (by 800 when no sentence break is found), the call returns, and a text
\* no longer than chunk_size is returned as a single chunk.
C29_ChunkTextTerminates ==
    /\ EveryIterationAdvances
    /\ <>(pc = "returned")
    /\ ShortTextIsOneChunk

\* chunk_text has returned three chunks of a text of 1801 characters, the second
\* starting 703 characters after the first and the third 800 after the second.
C29_Witness ==
    /\ pc = "returned"
    /\ Len(content) = 1801
    /\ Len(chunks) = 3
    /\ Len(chunks[1]) = 902
    /\ chunks[1] \o " " = Slice(content, 0, 903)
    /\ chunks[2] = Slice(content, 703, 1703)
    /\ chunks[3] = Strip(Slice(content, 1503, 1801))
    /\ start = 2303

\* The n most recent of the messages of history, in the order they were added
MostRecent(history, n) ==
    SubSeq(history, Len(history) - Min(n, Len(history)) + 1, Len(history))

\* C30: after any sequence of ChatManager calls, the message list of every existing
\* session has at most max_history_length entries and is made of the most recent of
\* the messages added since the session was created or last cleared, in the order
\* they were added.
C30_HistoryIsMostRecent ==
    pc = "chat" =>
        \A sid \in SessionIds :
            SessionExists(sid)
                => /\ Len(sessions[sid][1].messages) <= max_history_length
                   /\ sessions[sid][1].messages = MostRecent(added[sid], max_history_length)

\* What does hold: the same for every ChatManager whose max_history_length is not 0.
C30_HistoryIsMostRecentUnlessZero ==
    (pc = "chat" /\ max_history_length # 0) =>
        \A sid \in SessionIds :
            SessionExists(sid)
                => /\ Len(sessions[sid][1].messages) <= max_history_length
                   /\ sessions[sid][1].messages = MostRecent(added[sid], max_history_length)

\* add_message and clear_session on a session id that does not exist raise
\* ValueError and change no session; add_message on an existing one does not raise.
C30_MissingSessionRaises ==
    [][\A sid \in SessionIds :
          (call' # call /\ call'.op \in {"add_message", "clear_session"}
               /\ call'.session_id = sid)
              => IF SessionExists(sid)
                 THEN ~call'.raised
                 ELSE call'.raised /\ sessions' = sessions]_vars

====
